---- MODULE Spec2Model ----
(***************************************************************************)
(* A model of the WhatsApp command bot: the messages.upsert listener, the  *)
(* rate limiter, the media extractor, the sticker transcoders, the group   *)
(* metadata cache and the command handlers.  JavaScript strings that the   *)
(* code inspects character by character are given by Chars, the table of   *)
(* the characters of every string literal the model uses.                  *)
(***************************************************************************)
EXTENDS Integers, Sequences, FiniteSets, TLC

\* ------------------------------------------------------------ strings

Chars(s) ==
    CASE s = "" -> <<>>
      [] s = "hello" -> <<"h", "e", "l", "l", "o">>
      [] s = "x !menu" -> <<"x", " ", "!", "m", "e", "n", "u">>
      [] s = "! menu" -> <<"!", " ", "m", "e", "n", "u">>
      [] s = "  !MENU" -> <<" ", " ", "!", "M", "E", "N", "U">>
      [] s = "!menu" -> <<"!", "m", "e", "n", "u">>
      [] s = "!ajuda" -> <<"!", "a", "j", "u", "d", "a">>
      [] s = "!Fig" -> <<"!", "F", "i", "g">>
      [] s = "!sticker" -> <<"!", "s", "t", "i", "c", "k", "e", "r">>
      [] s = "!gifsticker" -> <<"!", "g", "i", "f", "s", "t", "i", "c", "k", "e", "r">>
      [] s = "!ocr" -> <<"!", "o", "c", "r">>
      [] s = "!imgtr EN" -> <<"!", "i", "m", "g", "t", "r", " ", "E", "N">>
      [] s = "!todos party time" -> <<"!", "t", "o", "d", "o", "s", " ", "p", "a", "r", "t", "y", " ", "t", "i", "m", "e">>
      [] s = "!tts en hello world" -> <<"!", "t", "t", "s", " ", "e", "n", " ", "h", "e", "l", "l", "o", " ", "w", "o", "r", "l", "d">>
      [] s = "!tts" -> <<"!", "t", "t", "s">>
      [] s = "!foo" -> <<"!", "f", "o", "o">>
      [] s = "!stickers" -> <<"!", "s", "t", "i", "c", "k", "e", "r", "s">>
      [] s = "!Help" -> <<"!", "H", "e", "l", "p">>
      [] s = "!S" -> <<"!", "S">>
      [] s = "!GifSticker" -> <<"!", "G", "i", "f", "S", "t", "i", "c", "k", "e", "r">>
      [] s = "!OCR" -> <<"!", "O", "C", "R">>
      [] s = "!Imgtr" -> <<"!", "I", "m", "g", "t", "r">>
      [] s = "!TODOS" -> <<"!", "T", "O", "D", "O", "S">>
      [] s = "!Tts" -> <<"!", "T", "t", "s">>
      [] s = "!s!menu" -> <<"!", "s", "!", "m", "e", "n", "u">>
      [] s = "!menus" -> <<"!", "m", "e", "n", "u", "s">>
      [] s = "558188345519@s.whatsapp.net" -> <<"5", "5", "8", "1", "8", "8", "3", "4", "5", "5", "1", "9", "@", "s", ".", "w", "h", "a", "t", "s", "a", "p", "p", ".", "n", "e", "t">>
      [] s = "558188345519:7@s.whatsapp.net" -> <<"5", "5", "8", "1", "8", "8", "3", "4", "5", "5", "1", "9", ":", "7", "@", "s", ".", "w", "h", "a", "t", "s", "a", "p", "p", ".", "n", "e", "t">>
      [] s = "5511977@s.whatsapp.net" -> <<"5", "5", "1", "1", "9", "7", "7", "@", "s", ".", "w", "h", "a", "t", "s", "a", "p", "p", ".", "n", "e", "t">>
      [] s = "120363@g.us" -> <<"1", "2", "0", "3", "6", "3", "@", "g", ".", "u", "s">>
      [] s = "menu" -> <<"m", "e", "n", "u">>
      [] s = "help" -> <<"h", "e", "l", "p">>
      [] s = "ajuda" -> <<"a", "j", "u", "d", "a">>
      [] s = "sticker" -> <<"s", "t", "i", "c", "k", "e", "r">>
      [] s = "fig" -> <<"f", "i", "g">>
      [] s = "s" -> <<"s">>
      [] s = "gifsticker" -> <<"g", "i", "f", "s", "t", "i", "c", "k", "e", "r">>
      [] s = "ocr" -> <<"o", "c", "r">>
      [] s = "imgtr" -> <<"i", "m", "g", "t", "r">>
      [] s = "todos" -> <<"t", "o", "d", "o", "s">>
      [] s = "tts" -> <<"t", "t", "s">>
      [] s = "pt" -> <<"p", "t">>

LowerSeq ==
    <<"a", "b", "c", "d", "e", "f", "g", "h", "i", "j", "k", "l", "m",
      "n", "o", "p", "q", "r", "s", "t", "u", "v", "w", "x", "y", "z">>

UpperSeq ==
    <<"A", "B", "C", "D", "E", "F", "G", "H", "I", "J", "K", "L", "M",
      "N", "O", "P", "Q", "R", "S", "T", "U", "V", "W", "X", "Y", "Z">>

Digits == {"0", "1", "2", "3", "4", "5", "6", "7", "8", "9"}

Range(f) == {f[i] : i \in DOMAIN f}

\* String.prototype.toLowerCase on one character and on a string.
ToLowerChar(c) ==
    IF c \in Range(UpperSeq)
      THEN LowerSeq[CHOOSE i \in DOMAIN UpperSeq : UpperSeq[i] = c]
      ELSE c

ToLowerCase(t) == [i \in DOMAIN t |-> ToLowerChar(t[i])]

\* The regular expression classes \s and \w.
IsSpace(c) == c \in {" ", "\t", "\n", "\r"}

IsWordChar(c) == c \in Range(LowerSeq) \cup Range(UpperSeq) \cup Digits \cup {"_"}

\* \s* from position i: the position of the first character that is no space.
RECURSIVE SkipSpaces(_, _)
SkipSpaces(t, i) ==
    IF i <= Len(t) /\ IsSpace(t[i]) THEN SkipSpaces(t, i + 1) ELSE i

\* \w* from position i (greedy): the position after the last word character.
RECURSIVE WordEnd(_, _)
WordEnd(t, i) ==
    IF i <= Len(t) /\ IsWordChar(t[i]) THEN WordEnd(t, i + 1) ELSE i

\* Where a pattern without the ^ anchor, /!(\w+)/i, would find its "!".
AnyBangPosition(t) ==
    IF \E i \in DOMAIN t : t[i] = "!"
      THEN CHOOSE i \in DOMAIN t : t[i] = "!" /\ \A j \in 1 .. (i - 1) : t[j] # "!"
      ELSE Len(t) + 1

\* Where the leading pattern of texto.match(/^\s*!(\w+)/i) looks for the "!".
BangPosition(t) == SkipSpaces(t, 1)

\* texto.match(/^\s*!(\w+)/i): whether it matched, and capture group 1.
MatchCommand(t) ==
    LET b == BangPosition(t)
        e == WordEnd(t, b + 1)
    IN  IF b <= Len(t) /\ t[b] = "!" /\ e > b + 1
          THEN [matched |-> TRUE, word |-> SubSeq(t, b + 1, e - 1)]
          ELSE [matched |-> FALSE, word |-> <<>>]

\* String.prototype.trim.
RECURSIVE TrimEnd(_)
TrimEnd(t) ==
    IF Len(t) > 0 /\ IsSpace(t[Len(t)]) THEN TrimEnd(SubSeq(t, 1, Len(t) - 1)) ELSE t

Trim(t) == TrimEnd(SubSeq(t, SkipSpaces(t, 1), Len(t)))

\* texto.replace(/^\s*!<name>\s*/i, ''): the text with the leading command cut.
StripCommand(t, name) ==
    LET b == SkipSpaces(t, 1)
        n == Len(Chars(name))
    IN  IF b + n <= Len(t) /\ t[b] = "!"
           /\ ToLowerCase(SubSeq(t, b + 1, b + n)) = Chars(name)
          THEN SubSeq(t, SkipSpaces(t, b + n + 1), Len(t))
          ELSE t

\* args.split(/\s+/)[0]: the text before the first run of spaces.
RECURSIVE TokenEnd(_, _)
TokenEnd(t, i) ==
    IF i <= Len(t) /\ ~IsSpace(t[i]) THEN TokenEnd(t, i + 1) ELSE i

FirstToken(t) == SubSeq(t, 1, TokenEnd(t, 1) - 1)

\* [lang, ...textArr] = args.split(/\s+/); textArr.join(' ') has the runs of
\* spaces between the later tokens replaced by one space each.
RECURSIVE JoinTokens(_)
JoinTokens(t) ==
    LET e == TokenEnd(t, 1)
        r == SubSeq(t, SkipSpaces(t, e), Len(t))
    IN  IF e > Len(t) THEN t
        ELSE SubSeq(t, 1, e - 1) \o <<" ">> \o JoinTokens(r)

RestTokens(t) ==
    LET e == TokenEnd(t, 1)
    IN  IF e > Len(t) THEN <<>> ELSE JoinTokens(SubSeq(t, SkipSpaces(t, e), Len(t)))

\* ------------------------------------------------------ configuration

OWNER_NUMBER == "558188345519@s.whatsapp.net"

RATE_LIMIT == [max |-> 5, windowMs |-> 60 * 1000]

\* The delay of the eviction timer of getGroupAdmins.
CacheTtlMs == 5 * 60 * 1000

\* The limits of getMediaBuffer and of the two transcoders.
MaxMediaBytes == 10 * 1024 * 1024

MaxStickerBytes == 1024 * 1024

\* The command table, in the order Object.values lists it.
commands ==
    << [name |-> "menu",       handler |-> "handleMenu",           aliases |-> <<"help", "ajuda">>],
       [name |-> "sticker",    handler |-> "handleSticker",        aliases |-> <<"fig", "s">>],
       [name |-> "gifsticker", handler |-> "handleSticker",        aliases |-> <<>>],
       [name |-> "ocr",        handler |-> "handleOCR",            aliases |-> <<>>],
       [name |-> "imgtr",      handler |-> "handleImageTranslate", aliases |-> <<>>],
       [name |-> "todos",      handler |-> "handleTodos",          aliases |-> <<>>],
       [name |-> "tts",        handler |-> "handleTTS",            aliases |-> <<>>] >>

\* A lookup that would know the names and no alias.
CommandMatchesName(c, cmdName) == Chars(c.name) = cmdName

\* c.aliases?.includes(cmdName) || c === commands[cmdName]
CommandMatches(c, cmdName) ==
    \/ \E a \in Range(c.aliases) : Chars(a) = cmdName
    \/ Chars(c.name) = cmdName

\* Object.values(commands).find(...): the index of the first match, 0 for none.
FindCommand(cmdName) ==
    LET hits == {i \in DOMAIN commands : CommandMatches(commands[i], cmdName)}
    IN  IF hits = {} THEN 0 ELSE CHOOSE i \in hits : \A j \in hits : i <= j

\* ----------------------------------------------------- inbound messages

\* An attachment (imageMessage, videoMessage): absent, or a caption and the
\* number of bytes its download yields.
NoAttachment == [present |-> FALSE, caption |-> "", bytes |-> 0]

Attachment(caption, bytes) == [present |-> TRUE, caption |-> caption, bytes |-> bytes]

\* extendedTextMessage.contextInfo.quotedMessage
NoQuoted == [present |-> FALSE, imageMessage |-> NoAttachment, videoMessage |-> NoAttachment]

Quoted(image, video) == [present |-> TRUE, imageMessage |-> image, videoMessage |-> video]

NoExtendedText == [present |-> FALSE, text |-> "", quotedMessage |-> NoQuoted]

ExtendedText(text, quoted) == [present |-> TRUE, text |-> text, quotedMessage |-> quoted]

\* m.messages[0]: key.remoteJid, key.participant and participant ("" when
\* absent) and message (hasMessage is FALSE when msg.message is missing).
Message(jid, participant, conversation, ext, image, video) ==
    [hasMessage |-> TRUE, remoteJid |-> jid, keyParticipant |-> participant,
     participant |-> "", conversation |-> conversation,
     extendedTextMessage |-> ext, imageMessage |-> image, videoMessage |-> video]

\* msg.key.participant || msg.participant || msg.key.remoteJid
SenderOf(msg) ==
    IF msg.keyParticipant # "" THEN msg.keyParticipant
    ELSE IF msg.participant # "" THEN msg.participant
    ELSE msg.remoteJid

\* conversation || extendedTextMessage?.text || imageMessage?.caption
\*   || videoMessage?.caption || ''
TextoOf(msg) ==
    IF msg.conversation # "" THEN msg.conversation
    ELSE IF msg.extendedTextMessage.present /\ msg.extendedTextMessage.text # ""
      THEN msg.extendedTextMessage.text
    ELSE IF msg.imageMessage.present /\ msg.imageMessage.caption # ""
      THEN msg.imageMessage.caption
    ELSE IF msg.videoMessage.present /\ msg.videoMessage.caption # ""
      THEN msg.videoMessage.caption
    ELSE ""

\* jid.endsWith('@g.us')
IsGroupJid(jid) ==
    LET t == Chars(jid)
    IN  Len(t) >= 5 /\ SubSeq(t, Len(t) - 4, Len(t)) = <<"@", "g", ".", "u", "s">>

\* ------------------------------------------------------- rate limiter

NoRateEntry == [present |-> FALSE, count |-> 0, resetTime |-> 0]

\* rateLimits.get(sender) || { count: 0, resetTime: now }
InitialLimit(t) == [present |-> FALSE, count |-> 0, resetTime |-> t]

\* if (now > userLimit.resetTime)
WindowExpired(t, userLimit) == t > userLimit.resetTime

\* A limit test that would let one attempt more through.
LimitReachedLate(userLimit) == userLimit.count > RATE_LIMIT.max

\* if (userLimit.count >= RATE_LIMIT.max) throw
LimitReached(userLimit) == userLimit.count >= RATE_LIMIT.max

\* checkRateLimit with one window for all senders in place of one per sender
CheckRateLimitShared(rl, sender, t) ==
    LET stored    == rl[sender]
        userLimit == IF stored.present THEN stored ELSE InitialLimit(t)
        reset     == IF WindowExpired(t, userLimit)
                       THEN [userLimit EXCEPT !.count = 0,
                                              !.resetTime = t + RATE_LIMIT.windowMs]
                       ELSE userLimit
    IN  IF LimitReached(reset)
          THEN [throws |-> TRUE,
                rateLimits |-> IF stored.present THEN [s \in DOMAIN rl |-> reset] ELSE rl]
          ELSE [throws |-> FALSE,
                rateLimits |-> [s \in DOMAIN rl |->
                                  [present |-> TRUE, count |-> reset.count + 1,
                                   resetTime |-> reset.resetTime]]]

\* checkRateLimit(sender) at time t on the map rl: whether it throws, and the
\* map afterwards.  userLimit is the stored object itself when there is one,
\* so the reset assigns into the map even before rateLimits.set.
CheckRateLimit(rl, sender, t) ==
    LET stored    == rl[sender]
        userLimit == IF stored.present THEN stored ELSE InitialLimit(t)
        reset     == IF WindowExpired(t, userLimit)
                       THEN [userLimit EXCEPT !.count = 0,
                                              !.resetTime = t + RATE_LIMIT.windowMs]
                       ELSE userLimit
    IN  IF LimitReached(reset)
          THEN [throws |-> TRUE,
                rateLimits |-> IF stored.present THEN [rl EXCEPT ![sender] = reset] ELSE rl]
          ELSE [throws |-> FALSE,
                rateLimits |-> [rl EXCEPT ![sender] =
                                  [present |-> TRUE, count |-> reset.count + 1,
                                   resetTime |-> reset.resetTime]]]

\* ---------------------------------------------------- media extractor

\* getMediaBuffer, lines 51-54: the message whose attachments are examined.
ExaminedMessage(msg) ==
    IF msg.extendedTextMessage.present /\ msg.extendedTextMessage.quotedMessage.present
      THEN [origin |-> "quoted",
            imageMessage |-> msg.extendedTextMessage.quotedMessage.imageMessage,
            videoMessage |-> msg.extendedTextMessage.quotedMessage.videoMessage]
      ELSE [origin |-> "direct",
            imageMessage |-> msg.imageMessage,
            videoMessage |-> msg.videoMessage]

\* getMediaBuffer, lines 55-56: the first type of ['imageMessage',
\* 'videoMessage'] the examined message has; its kind, where it was found and
\* the bytes its download yields.
SelectMedia(msg) ==
    LET m == ExaminedMessage(msg)
    IN  IF m.imageMessage.present
          THEN [found |-> TRUE, kind |-> "image", origin |-> m.origin,
                bytes |-> m.imageMessage.bytes]
        ELSE IF m.videoMessage.present
          THEN [found |-> TRUE, kind |-> "video", origin |-> m.origin,
                bytes |-> m.videoMessage.bytes]
        ELSE [found |-> FALSE, kind |-> "none", origin |-> m.origin, bytes |-> 0]

\* A size check that would reject a buffer of exactly the limit.
MediaTooLargeAtLimit(bytes) == bytes >= MaxMediaBytes

\* if (buffer.length > 10 * 1024 * 1024) throw
MediaTooLarge(bytes) == bytes > MaxMediaBytes

\* A size check that would let one byte over the limit through.
StickerTooLargeByTwo(bytes) == bytes > MaxStickerBytes + 1

\* if (webpBuffer.length > 1024 * 1024) throw, in both transcoders
StickerTooLarge(bytes) == bytes > MaxStickerBytes

\* ------------------------------------------------- owner normalisation

\* [0-9]+ from position i: the position after the last digit.
RECURSIVE DigitsEnd(_, _)
DigitsEnd(t, i) ==
    IF i <= Len(t) /\ t[i] \in Digits THEN DigitsEnd(t, i + 1) ELSE i

\* .replace(/:[0-9]+@/, '@'): the first ":<digits>@" becomes "@".
StripDevice(t) ==
    LET hits == {i \in DOMAIN t :
                    /\ t[i] = ":"
                    /\ DigitsEnd(t, i + 1) > i + 1
                    /\ DigitsEnd(t, i + 1) <= Len(t)
                    /\ t[DigitsEnd(t, i + 1)] = "@"}
    IN  IF hits = {} THEN t
        ELSE LET i == CHOOSE h \in hits : \A k \in hits : h <= k
             IN  SubSeq(t, 1, i - 1) \o SubSeq(t, DigitsEnd(t, i + 1), Len(t))

\* The characters the class [^0-9@s.whatsapp.net] lets through.
KeptChars == Digits \cup {"@", "s", ".", "w", "h", "a", "t", "p", "n", "e"}

KeepChar(c) == c \in KeptChars

\* sender.replace(/:[0-9]+@/, '@').replace(/[^0-9@s.whatsapp.net]/g, '')
NormalizeJid(id) == SelectSeq(StripDevice(Chars(id)), KeepChar)

IsOwner(sender) == NormalizeJid(sender) = NormalizeJid(OWNER_NUMBER)

\* -------------------------------------------------------- reply texts

\* A text is the sequence of its pieces.  The failure marker is U+274C in
\* the source; the other emoji of the source are written as words here.
FailureMarker == "[x]"

TextStartsWithFailure(text) == Len(text) > 0 /\ text[1] = FailureMarker

RateLimitMessage == <<"Limite de comandos atingido. Tente novamente em alguns minutos.">>

MediaTooLargeMessage == <<"Midia excede o limite de 10MB">>

ImageStickerFailed == <<"Falha ao processar imagem para figurinha">>

ImageStickerTooLarge == <<"Figurinha estatica excede o limite de 1MB">>

VideoStickerTooLarge == <<"Figurinha animada excede o limite de 1MB">>

\* throw new Error(`Falha ao criar figurinha de video: ${e.message}`)
VideoStickerFailed(cause) == <<"Falha ao criar figurinha de video: ">> \o cause

\* reject(new Error(`FFmpeg error: ${err.message}`))
FfmpegError(cause) == <<"FFmpeg error: ">> \o cause

NoKeyMessage == <<"GEMINI_API_KEY nao configurada">>

OcrFailed == <<"Falha ao extrair texto da imagem">>

TranslateFailed == <<"Falha ao traduzir texto da imagem">>

\* The messages of the errors the collaborators raise themselves.
TransportError == <<"Connection Closed">>

DownloadError == <<"download failed">>

IoError == <<"EIO">>

EncoderError == <<"encoder failed">>

RosterError == <<"item-not-found">>

\* { text: `[x] Erro: ${e.message}` } of the listener's catch
RouterErrorText(message) == <<FailureMarker, " Erro: ">> \o message

\* { text: `[x] Erro ao enviar figurinha: ${e.message}` } of enviarFigurinha
StickerErrorText(message) == <<FailureMarker, " Erro ao enviar figurinha: ">> \o message

NoMediaText == <<FailureMarker, " Envie uma imagem, video curto ou GIF (ou responda a um).">>

OcrUsageText == <<FailureMarker, " Envie ou responda a uma *imagem* com !ocr.">>

ImgtrNoTextText == <<FailureMarker, " Erro: Nenhum texto fornecido para !imgtr.">>

ImgtrUsageText == <<FailureMarker, " Envie ou responda a uma *imagem* com !imgtr [lang].">>

GroupOnlyText == <<FailureMarker, " Este comando so funciona em grupos.">>

TtsNoTextText == <<FailureMarker, " Erro: Nenhum texto fornecido para !tts.">>

TtsUsageText == <<FailureMarker, " Use: !tts [pt|en|es] texto">>

TtsFailedText == <<FailureMarker, " Falha ao gerar audio.">>

\* buildMenu: the fixed lines, and the hint shown while no key is configured.
MenuText(hasKey) ==
    <<"[menu] *Menu de Comandos*">>
      \o (IF hasKey THEN <<>> ELSE <<"Configure GEMINI_API_KEY para !ocr e !imgtr.">>)

\* text ? `[memo] *Texto reconhecido:*\n${text}` : '[!] Nenhum texto encontrado.'
OcrReplyText(text) ==
    IF text # <<>> THEN <<"[memo] *Texto reconhecido:*">> \o text
    ELSE <<"[!] Nenhum texto encontrado.">>

\* translated ? `[globe] *Traducao (${lang}):*\n${translated}` : '[!] Nenhum texto para traduzir.'
TranslateReplyText(lang, translated) ==
    IF translated # <<>> THEN <<"[globe] *Traducao (">> \o lang \o <<"):*">> \o translated
    ELSE <<"[!] Nenhum texto para traduzir.">>

\* { text: `@everyone ${conteudo}`, mentions: participants }
BroadcastText(conteudo) == <<"@everyone ">> \o conteudo

\* The payloads handed to sock.sendMessage.
TextPayload(text) ==
    [type |-> "text", text |-> text, bytes |-> 0, isAnimated |-> FALSE,
     mentions |-> {}, lang |-> <<>>]

BroadcastPayload(text, participants) ==
    [type |-> "broadcast", text |-> text, bytes |-> 0, isAnimated |-> FALSE,
     mentions |-> participants, lang |-> <<>>]

StickerPayload(bytes, kind) ==
    [type |-> "sticker", text |-> <<>>, bytes |-> bytes, isAnimated |-> (kind = "video"),
     mentions |-> {}, lang |-> <<>>]

\* The audio gTTS synthesised from text in lang.
AudioPayload(text, lang) ==
    [type |-> "audio", text |-> text, bytes |-> 0, isAnimated |-> FALSE,
     mentions |-> {}, lang |-> lang]

\* -------------------------------------------------------------- state

VARIABLES
    now,                 \* Date.now(), in milliseconds
    ticks,               \* how often the clock has advanced
    hasGeminiKey,        \* whether GEMINI_API_KEY is configured
    rateLimits,          \* the Map rateLimits: sender -> { count, resetTime }
    groupMetadataCache,  \* the Map groupMetadataCache: group -> roster
    timers,              \* the pending eviction timers, in the order they were set
    groupState,          \* the roster the transport holds for each group
    files,               \* the temporary files that exist
    pc,                  \* where each listener invocation (or direct call) stands
    ev,                  \* the message each invocation is processing
    loc,                 \* the local variables of each invocation
    out,                 \* the sendMessage calls of each invocation, in order
    fin,                 \* the invocation that ended in the last step, if one did
    windows              \* per sender, the 60 s window the rate claim measures

vars ==
    <<now, ticks, hasGeminiKey, rateLimits, groupMetadataCache, timers, groupState,
      files, pc, ev, loc, out, fin, windows>>

\* The bounds of the model.
NumSlots == 2

MaxTicks == 3

Procs == 1 .. NumSlots

\* The chats and senders of the model.
OwnerJid == "558188345519@s.whatsapp.net"

OwnerDeviceJid == "558188345519:7@s.whatsapp.net"

OtherJid == "5511977@s.whatsapp.net"

GroupJid == "120363@g.us"

Jids == {OwnerJid, OwnerDeviceJid, OtherJid, GroupJid}

Groups == {GroupJid}

\* The rosters the transport may hold for a group: participants with their
\* admin flag.
Participant(id, admin) == [id |-> id, admin |-> admin]

RosterBoth == {Participant(OwnerJid, TRUE), Participant(OtherJid, FALSE)}

RosterOwnerOnly == {Participant(OwnerJid, TRUE)}

Rosters == {RosterBoth, RosterOwnerOnly}

NoRoster == [present |-> FALSE, participants |-> {}, fetchedAt |-> 0]

\* meta.participants.map(p => p.id)
ParticipantIds(participants) == {x.id : x \in participants}

\* meta.participants.filter(p => p.admin).map(p => p.id)
AdminIds(participants) == {x.id : x \in {y \in participants : y.admin}}

NoMessage ==
    [hasMessage |-> FALSE, remoteJid |-> "", keyParticipant |-> "", participant |-> "",
     conversation |-> "", extendedTextMessage |-> NoExtendedText,
     imageMessage |-> NoAttachment, videoMessage |-> NoAttachment]

NoMedia == [found |-> FALSE, kind |-> "none", origin |-> "direct", bytes |-> 0]

NoPending == [throws |-> FALSE, err |-> <<>>]

\* The locals of an invocation before it starts.  steps lists what the
\* invocation has done so far, cause is the message of the error a
\* transcoder's catch received (e.message of lines 127 and 170).
NoLoc ==
    [cmd |-> "", ctx |-> "router", after |-> "return", payload |-> TextPayload(<<>>),
     err |-> <<>>, cause |-> <<>>, media |-> NoMedia, inPath |-> 0, outPath |-> 0, webp |-> 0,
     pending |-> NoPending, lang |-> <<>>, text |-> <<>>, jid |-> "",
     result |-> NoRoster, steps |-> <<>>]

NoWindow == [open |-> FALSE, start |-> 0, passed |-> 0]

\* No invocation ended in the last step.
NoFin == [how |-> "none", ev |-> NoMessage, loc |-> NoLoc, out |-> <<>>]

Init ==
    /\ now = 0
    /\ ticks = 0
    /\ hasGeminiKey \in BOOLEAN
    /\ rateLimits = [s \in Jids |-> NoRateEntry]
    /\ groupMetadataCache = [g \in Groups |-> NoRoster]
    /\ timers = <<>>
    /\ groupState = [g \in Groups |-> RosterBoth]
    /\ files = {}
    /\ pc = [p \in Procs |-> "idle"]
    /\ ev = [p \in Procs |-> NoMessage]
    /\ loc = [p \in Procs |-> NoLoc]
    /\ out = [p \in Procs |-> <<>>]
    /\ fin = NoFin
    /\ windows = [s \in Jids |-> NoWindow]

Step(l, s) == [l EXCEPT !.steps = Append(@, s)]

\* A throw that would be swallowed, the flow going on to the handler.
RaiseSwallowed(l, message) == [pc |-> "handler", loc |-> l]

\* What a throw of an error with this message leads to, from the try blocks
\* around the invocation's position: the position and locals it continues at.
Raise(l, message) ==
    CASE l.ctx = "video" ->
           \* videoToStickerWebp's catch (lines 170-172), then its finally
           [pc |-> "vUnlinkIn",
            loc |-> [l EXCEPT !.cause = message,
                              !.pending = [throws |-> TRUE,
                                           err |-> VideoStickerFailed(message)]]]
      [] l.ctx = "figurinha" ->
           \* enviarFigurinha's catch (lines 195-197)
           [pc |-> "send",
            loc |-> [Step(l, "figurinhaCatch") EXCEPT
                        !.payload = TextPayload(StickerErrorText(message)),
                        !.ctx = "router", !.after = "return", !.err = message]]
      [] l.ctx = "tts" ->
           \* handleTTS's catch (lines 331-333)
           [pc |-> "send",
            loc |-> [Step(l, "ttsCatch") EXCEPT
                        !.payload = TextPayload(TtsFailedText),
                        !.ctx = "ttsCatch", !.after = "ttsFinally", !.err = message]]
      [] l.ctx = "ttsCatch" ->
           \* a throw inside handleTTS's catch: the finally, then the caller
           [pc |-> "ttsUnlink",
            loc |-> [l EXCEPT !.pending = [throws |-> TRUE, err |-> message]]]
      [] l.ctx = "router" ->
           \* the listener's catch (lines 389-391)
           [pc |-> "send",
            loc |-> [Step(l, "routerCatch") EXCEPT
                        !.payload = TextPayload(RouterErrorText(message)),
                        !.ctx = "listenerCatch", !.after = "return", !.err = message]]
      [] l.ctx = "listenerCatch" ->
           \* a throw inside the listener's catch rejects the listener's promise
           [pc |-> "escaped", loc |-> [Step(l, "escaped") EXCEPT !.err = message]]
      [] OTHER ->
           \* a direct call: the error goes to the caller
           [pc |-> "done", loc |-> [Step(l, "threw") EXCEPT !.err = message]]

\* The invocation in slot p, processing msg and with the sendMessage calls
\* sent behind it, continues at to.  An invocation that returns ("done") or
\* whose promise rejects ("escaped") leaves its slot; fin shows it for one
\* step.
Proceed(p, msg, to, sent) ==
    IF to.pc \in {"done", "escaped"}
      THEN /\ fin' = [how |-> to.pc, ev |-> msg, loc |-> to.loc, out |-> sent]
           /\ pc' = [pc EXCEPT ![p] = "idle"]
           /\ ev' = [ev EXCEPT ![p] = NoMessage]
           /\ loc' = [loc EXCEPT ![p] = NoLoc]
           /\ out' = [out EXCEPT ![p] = <<>>]
      ELSE /\ fin' = NoFin
           /\ pc' = [pc EXCEPT ![p] = to.pc]
           /\ ev' = [ev EXCEPT ![p] = msg]
           /\ loc' = [loc EXCEPT ![p] = to.loc]
           /\ out' = [out EXCEPT ![p] = sent]

Continue(p, to) == Proceed(p, ev[p], to, out[p])

\* await sock.sendMessage(jid, payload) as the invocation's next step.
SendNext(l, payload) == [pc |-> "send", loc |-> [l EXCEPT !.payload = payload]]

\* The window the rate claim measures: it starts at a sender's first attempt
\* and at the first attempt after 60 s have passed since the last start.
ObserveAttempt(w, t, accepted) ==
    IF ~w.open \/ t > w.start + RATE_LIMIT.windowMs
      THEN [open |-> TRUE, start |-> t, passed |-> IF accepted THEN 1 ELSE 0]
      ELSE [w EXCEPT !.passed = @ + (IF accepted THEN 1 ELSE 0)]

\* tmpPath(ext): Date.now() and a random suffix make a name no other call
\* has been given; here, the least number that names no file and that no
\* invocation holds.
PathsInUse ==
    files \cup {loc[q].inPath : q \in Procs} \cup {loc[q].outPath : q \in Procs}
          \cup {fin.loc.inPath, fin.loc.outPath}

LeastFree(used) ==
    CHOOSE n \in 1 .. (Cardinality(used) + 1) :
        n \notin used /\ \A m \in 1 .. (n - 1) : m \in used

tmpPath(used) == LeastFree(used \cup {0})

\* ----------------------------------------------------------- listener

\* cmd.handler(sock, jid, sender, msg, texto): the fourth and the fifth
\* argument of the call, by JavaScript type.
ListenerArguments(msg) ==
    [a4 |-> [type |-> "object", text |-> ""],
     a5 |-> [type |-> "string", text |-> TextoOf(msg)]]

\* function handleImageTranslate(sock, jid, sender, msg, texto)
ImageTranslateTexto(msg) == ListenerArguments(msg).a5

\* function handleTodos(sock, jid, sender, texto)
TodosTexto(msg) == ListenerArguments(msg).a4

\* function handleTTS(sock, jid, sender, texto)
TtsTexto(msg) == ListenerArguments(msg).a4

\* The listener up to its first suspension (lines 369-387): the parse, the
\* command lookup and checkRateLimit, which has no await inside.
Upsert(p, msg) ==
    /\ pc[p] = "idle"
    /\ LET sender  == SenderOf(msg)
           match   == MatchCommand(Chars(TextoOf(msg)))
           cmdName == ToLowerCase(match.word)
           idx     == FindCommand(cmdName)
           rl      == CheckRateLimit(rateLimits, sender, now)
           l0      == [NoLoc EXCEPT !.jid = msg.remoteJid]
       IN  IF ~msg.hasMessage \/ ~match.matched \/ idx = 0
             THEN /\ Proceed(p, msg, [pc |-> "done", loc |-> Step(l0, "ignored")], <<>>)
                  /\ UNCHANGED rateLimits
             ELSE /\ rateLimits' = rl.rateLimits
                  /\ IF rl.throws
                       THEN Proceed(p, msg, Raise(Step(l0, "rateLimited"), RateLimitMessage), <<>>)
                       ELSE Proceed(p, msg, [pc |-> "handler",
                                             loc |-> [Step(l0, "rateOk") EXCEPT
                                                        !.cmd = commands[idx].handler]], <<>>)
    /\ UNCHANGED <<now, ticks, hasGeminiKey, groupMetadataCache, timers, groupState, files,
                   windows>>

\* What follows getMediaBuffer's return in the three handlers that call it
\* (media.found is FALSE for null): lines 266-270, 275-279 and 291-295, with
\* the synchronous starts of enviarFigurinha and of the two Gemini calls.
AfterMedia(l, media, used) ==
    LET lm == [l EXCEPT !.media = media]
    IN  CASE l.cmd = "handleSticker" ->
               IF ~media.found THEN SendNext(lm, TextPayload(NoMediaText))
               ELSE IF media.kind = "image"
                 THEN [pc |-> "sharp", loc |-> [lm EXCEPT !.ctx = "figurinha"]]
               ELSE [pc |-> "vWrite",
                     loc |-> [lm EXCEPT !.ctx = "video",
                                        !.inPath = tmpPath(used),
                                        !.outPath = tmpPath(used \cup {tmpPath(used)})]]
          [] l.cmd = "handleOCR" ->
               IF ~media.found \/ media.kind # "image"
                 THEN SendNext(lm, TextPayload(OcrUsageText))
               ELSE IF ~hasGeminiKey THEN Raise(lm, NoKeyMessage)
               ELSE [pc |-> "gemini", loc |-> lm]
          [] OTHER ->
               IF ~media.found \/ media.kind # "image"
                 THEN SendNext(lm, TextPayload(ImgtrUsageText))
               ELSE IF ~hasGeminiKey THEN Raise(lm, NoKeyMessage)
               ELSE [pc |-> "gemini", loc |-> lm]

\* getMediaBuffer up to its first await (lines 50-57).
GetMediaStart(l, msg, used) ==
    IF SelectMedia(msg).found
      THEN [pc |-> "download", loc |-> [l EXCEPT !.media = SelectMedia(msg)]]
      ELSE AfterMedia(l, NoMedia, used)

Invoked(p, handler) == pc[p] = "handler" /\ loc[p].cmd = handler

\* handleMenu (lines 259-262)
HandleMenu(p) ==
    /\ Invoked(p, "handleMenu")
    /\ Continue(p, SendNext(Step(loc[p], "invoke"), TextPayload(MenuText(hasGeminiKey))))
    /\ UNCHANGED <<now, ticks, hasGeminiKey, rateLimits, groupMetadataCache, timers,
                   groupState, files, windows>>

\* handleSticker (lines 264-271), up to the download
HandleSticker(p) ==
    /\ Invoked(p, "handleSticker")
    /\ Continue(p, GetMediaStart(Step(loc[p], "invoke"), ev[p], PathsInUse))
    /\ UNCHANGED <<now, ticks, hasGeminiKey, rateLimits, groupMetadataCache, timers,
                   groupState, files, windows>>

\* handleOCR (lines 273-281), up to the download
HandleOCR(p) ==
    /\ Invoked(p, "handleOCR")
    /\ Continue(p, GetMediaStart(Step(loc[p], "invoke"), ev[p], PathsInUse))
    /\ UNCHANGED <<now, ticks, hasGeminiKey, rateLimits, groupMetadataCache, timers,
                   groupState, files, windows>>

\* handleImageTranslate (lines 283-297), up to the download
HandleImageTranslate(p) ==
    /\ Invoked(p, "handleImageTranslate")
    /\ LET texto == ImageTranslateTexto(ev[p])
           l     == Step(loc[p], "invoke")
       IN  IF texto.type # "string"
             THEN Continue(p, SendNext(l, TextPayload(ImgtrNoTextText)))
             ELSE LET args == Trim(StripCommand(Chars(texto.text), "imgtr"))
                      lang == ToLowerCase(IF FirstToken(args) # <<>>
                                            THEN FirstToken(args) ELSE Chars("pt"))
                  IN  Continue(p, GetMediaStart([l EXCEPT !.lang = lang], ev[p], PathsInUse))
    /\ UNCHANGED <<now, ticks, hasGeminiKey, rateLimits, groupMetadataCache, timers,
                   groupState, files, windows>>

\* handleTodos (lines 299-310) with marcarTodosInvisivel (lines 202-209), up
\* to the roster fetch or, with a cached roster, up to the send.  isOwner is
\* computed and logged (lines 304-307) and nothing reads it.
HandleTodos(p) ==
    /\ Invoked(p, "handleTodos")
    /\ LET jid   == ev[p].remoteJid
           texto == TodosTexto(ev[p])
           l     == Step(loc[p], "invoke")
       IN  IF ~IsGroupJid(jid)
             THEN Continue(p, SendNext(l, TextPayload(GroupOnlyText)))
             ELSE LET conteudo == IF texto.type = "string"
                                    THEN Trim(StripCommand(Chars(texto.text), "todos"))
                                    ELSE <<>>
                      lt == [l EXCEPT !.text = conteudo]
                  IN  IF groupMetadataCache[jid].present
                        THEN Continue(p, SendNext(
                               [Step(lt, "rosterFromCache") EXCEPT
                                  !.result = groupMetadataCache[jid]],
                               BroadcastPayload(BroadcastText(conteudo),
                                 ParticipantIds(groupMetadataCache[jid].participants))))
                        ELSE Continue(p, [pc |-> "roster", loc |-> lt])
    /\ UNCHANGED <<now, ticks, hasGeminiKey, rateLimits, groupMetadataCache, timers,
                   groupState, files, windows>>

\* handleTTS (lines 312-324), up to the synthesis
HandleTTS(p) ==
    /\ Invoked(p, "handleTTS")
    /\ LET texto == TtsTexto(ev[p])
           l     == Step(loc[p], "invoke")
       IN  IF texto.type # "string"
             THEN Continue(p, SendNext(l, TextPayload(TtsNoTextText)))
             ELSE LET args == Trim(StripCommand(Chars(texto.text), "tts"))
                      lang == FirstToken(args)
                      text == RestTokens(args)
                  IN  IF text = <<>> \/ lang = <<>>
                        THEN Continue(p, SendNext(l, TextPayload(TtsUsageText)))
                        ELSE Continue(p, [pc |-> "ttsSave",
                                          loc |-> [l EXCEPT !.ctx = "tts", !.lang = lang,
                                                            !.text = text,
                                                            !.outPath = tmpPath(PathsInUse)]])
    /\ UNCHANGED <<now, ticks, hasGeminiKey, rateLimits, groupMetadataCache, timers,
                   groupState, files, windows>>

\* ------------------------------------------------ steps after an await

\* getMediaBuffer after the download (lines 57-60), and the caller on from
\* its return.
Download(p, ok) ==
    /\ pc[p] = "download"
    /\ LET l == Step(loc[p], "download")
       IN  IF ~ok THEN Continue(p, Raise(l, DownloadError))
           ELSE IF MediaTooLarge(l.media.bytes)
             THEN Continue(p, Raise(Step(l, "mediaTooLarge"), MediaTooLargeMessage))
           ELSE Continue(p, AfterMedia(l, l.media, PathsInUse))
    /\ UNCHANGED <<now, ticks, hasGeminiKey, rateLimits, groupMetadataCache, timers,
                   groupState, files, windows>>

\* imageToStickerWebp (lines 111-131) from sharp's result on, and
\* enviarFigurinha up to its send (lines 183, 189).  bytes is the length of
\* the buffer sharp produced.  The catch of lines 127-130 receives sharp's
\* error or the size error of line 124 and throws a new Error with a fixed
\* message.
Sharp(p, ok, bytes) ==
    /\ pc[p] = "sharp"
    /\ LET l == [Step(loc[p], "transcode") EXCEPT !.webp = IF ok THEN bytes ELSE 0]
       IN  IF ~ok \/ StickerTooLarge(bytes)
             THEN Continue(p, Raise([Step(l, "transcodeFailed") EXCEPT
                                        !.cause = IF ok THEN ImageStickerTooLarge
                                                  ELSE EncoderError],
                                    ImageStickerFailed))
             ELSE Continue(p, SendNext(l, StickerPayload(bytes, "image")))
    /\ UNCHANGED <<now, ticks, hasGeminiKey, rateLimits, groupMetadataCache, timers,
                   groupState, files, windows>>

\* videoToStickerWebp: fs.writeFile(inPath, videoBuffer) (line 138).  A
\* failed write may leave the file behind.
VideoWrite(p, ok, left) ==
    /\ pc[p] = "vWrite"
    /\ files' = IF ok \/ left THEN files \cup {loc[p].inPath} ELSE files
    /\ LET l == Step(loc[p], "transcode")
       IN  IF ok THEN Continue(p, [pc |-> "vEncode", loc |-> l])
           ELSE Continue(p, Raise(Step(l, "transcodeFailed"), IoError))
    /\ UNCHANGED <<now, ticks, hasGeminiKey, rateLimits, groupMetadataCache, timers,
                   groupState, windows>>

\* videoToStickerWebp: the ffmpeg run (lines 146-163), which writes outPath.
\* bytes is the length of the file it wrote; a failed run may leave one.
VideoEncode(p, ok, left, bytes) ==
    /\ pc[p] = "vEncode"
    /\ files' = IF ok \/ left THEN files \cup {loc[p].outPath} ELSE files
    /\ IF ok THEN Continue(p, [pc |-> "vRead", loc |-> [loc[p] EXCEPT !.webp = bytes]])
       ELSE Continue(p, Raise(Step(loc[p], "transcodeFailed"), FfmpegError(EncoderError)))
    /\ UNCHANGED <<now, ticks, hasGeminiKey, rateLimits, groupMetadataCache, timers,
                   groupState, windows>>

\* videoToStickerWebp: fs.readFile(outPath) and the size check (lines 164-169)
VideoRead(p, ok) ==
    /\ pc[p] = "vRead"
    /\ LET l == loc[p]
       IN  IF ~ok THEN Continue(p, Raise(Step(l, "transcodeFailed"), IoError))
           ELSE IF StickerTooLarge(l.webp)
             THEN Continue(p, Raise(Step(l, "transcodeFailed"), VideoStickerTooLarge))
           ELSE Continue(p, [pc |-> "vUnlinkIn", loc |-> l])
    /\ UNCHANGED <<now, ticks, hasGeminiKey, rateLimits, groupMetadataCache, timers,
                   groupState, files, windows>>

\* An unlink that would remove nothing.
UnlinkNothing(fs, path) == fs

\* fs.unlink(path).catch(() => {}): the file is gone afterwards; an unlink of
\* a file that does not exist fails and the failure is dropped.  (An unlink
\* the file system refuses for a file that exists is not modelled.)
Unlink(fs, path) == fs \ {path}

\* videoToStickerWebp's finally: fs.unlink(inPath) (line 174)
VideoUnlinkIn(p) ==
    /\ pc[p] = "vUnlinkIn"
    /\ files' = Unlink(files, loc[p].inPath)
    /\ Continue(p, [pc |-> "vUnlinkOut", loc |-> loc[p]])
    /\ UNCHANGED <<now, ticks, hasGeminiKey, rateLimits, groupMetadataCache, timers,
                   groupState, windows>>

\* videoToStickerWebp's finally: fs.unlink(outPath) (line 175), then its
\* return or throw: into enviarFigurinha (lines 185, 189), or to the caller
\* of a direct call.
VideoUnlinkOut(p) ==
    /\ pc[p] = "vUnlinkOut"
    /\ files' = Unlink(files, loc[p].outPath)
    /\ LET direct == loc[p].cmd = "videoToStickerWebp"
           l == [Step(loc[p], "transcodeEnded") EXCEPT
                    !.ctx = IF direct THEN "caller" ELSE "figurinha",
                    !.pending = NoPending]
       IN  IF loc[p].pending.throws THEN Continue(p, Raise(l, loc[p].pending.err))
           ELSE IF direct THEN Continue(p, [pc |-> "done", loc |-> Step(l, "returned")])
           ELSE Continue(p, SendNext(l, StickerPayload(l.webp, "video")))
    /\ UNCHANGED <<now, ticks, hasGeminiKey, rateLimits, groupMetadataCache, timers,
                   groupState, windows>>

\* videoToStickerWebp(videoBuffer) called on its own, up to its first await
\* (lines 133-138).
CallVideoToStickerWebp(p) ==
    /\ pc[p] = "idle"
    /\ LET l == [NoLoc EXCEPT !.cmd = "videoToStickerWebp", !.ctx = "video",
                              !.inPath = tmpPath(PathsInUse),
                              !.outPath = tmpPath(PathsInUse \cup {tmpPath(PathsInUse)})]
       IN  Continue(p, [pc |-> "vWrite", loc |-> l])
    /\ UNCHANGED <<now, ticks, hasGeminiKey, rateLimits, groupMetadataCache, timers,
                   groupState, files, windows>>

\* ocrFromImageGemini and ocrAndTranslateImageGemini from generateContent's
\* result on (lines 217-225, 233-241), and the handlers' replies (280, 296).
\* text is result.response.text().
Gemini(p, ok, text) ==
    /\ pc[p] = "gemini"
    /\ LET l == Step(loc[p], "gemini")
       IN  IF l.cmd = "handleOCR"
             THEN IF ok THEN Continue(p, SendNext(l, TextPayload(OcrReplyText(text))))
                  ELSE Continue(p, Raise(l, OcrFailed))
             ELSE IF ok THEN Continue(p, SendNext(l, TextPayload(TranslateReplyText(l.lang, text))))
                  ELSE Continue(p, Raise(l, TranslateFailed))
    /\ UNCHANGED <<now, ticks, hasGeminiKey, rateLimits, groupMetadataCache, timers,
                   groupState, files, windows>>

\* marcarTodosInvisivel from sock.groupMetadata's result on (lines 203-208)
FetchRoster(p, ok) ==
    /\ pc[p] = "roster"
    /\ LET l    == Step(loc[p], "rosterFetch")
           meta == [present |-> TRUE, participants |-> groupState[l.jid], fetchedAt |-> now]
       IN  IF ~ok THEN Continue(p, Raise(l, RosterError))
           ELSE Continue(p, SendNext([l EXCEPT !.result = meta],
                  BroadcastPayload(BroadcastText(l.text), ParticipantIds(meta.participants))))
    /\ UNCHANGED <<now, ticks, hasGeminiKey, rateLimits, groupMetadataCache, timers,
                   groupState, files, windows>>

\* await sock.sendMessage(jid, payload): the call is recorded with whether
\* the transport delivered it; a failed call throws.
Send(p, ok) ==
    /\ pc[p] = "send"
    /\ LET sent == Append(out[p], [payload |-> loc[p].payload, delivered |-> ok,
                                    jid |-> loc[p].jid])
       IN  IF ~ok THEN Proceed(p, ev[p], Raise(loc[p], TransportError), sent)
           ELSE IF loc[p].after = "ttsFinally"
             THEN Proceed(p, ev[p], [pc |-> "ttsUnlink", loc |-> loc[p]], sent)
           ELSE Proceed(p, ev[p], [pc |-> "done", loc |-> Step(loc[p], "returned")], sent)
    /\ UNCHANGED <<now, ticks, hasGeminiKey, rateLimits, groupMetadataCache, timers,
                   groupState, files, windows>>

\* handleTTS: new gTTS(text, lang).save(outPath, ...) (lines 326-328)
TtsSave(p, ok, left) ==
    /\ pc[p] = "ttsSave"
    /\ files' = IF ok \/ left THEN files \cup {loc[p].outPath} ELSE files
    /\ IF ok THEN Continue(p, [pc |-> "ttsRead", loc |-> Step(loc[p], "synthesised")])
       ELSE Continue(p, Raise(loc[p], EncoderError))
    /\ UNCHANGED <<now, ticks, hasGeminiKey, rateLimits, groupMetadataCache, timers,
                   groupState, windows>>

\* handleTTS: fs.readFile(outPath) and the audio send (lines 329-330)
TtsRead(p, ok) ==
    /\ pc[p] = "ttsRead"
    /\ IF ok THEN Continue(p, SendNext([loc[p] EXCEPT !.after = "ttsFinally"],
                                       AudioPayload(loc[p].text, loc[p].lang)))
       ELSE Continue(p, Raise(loc[p], IoError))
    /\ UNCHANGED <<now, ticks, hasGeminiKey, rateLimits, groupMetadataCache, timers,
                   groupState, files, windows>>

\* handleTTS's finally: fs.unlink(outPath) (line 335), then the return, or
\* the throw of its catch's failed send on to the listener.
TtsUnlink(p) ==
    /\ pc[p] = "ttsUnlink"
    /\ files' = Unlink(files, loc[p].outPath)
    /\ LET l == [loc[p] EXCEPT !.ctx = "router", !.after = "return", !.pending = NoPending]
       IN  IF loc[p].pending.throws THEN Continue(p, Raise(l, loc[p].pending.err))
           ELSE Continue(p, [pc |-> "done", loc |-> Step(l, "returned")])
    /\ UNCHANGED <<now, ticks, hasGeminiKey, rateLimits, groupMetadataCache, timers,
                   groupState, windows>>

\* ----------------------------------------------------- group directory

\* getGroupAdmins(jid) up to its first suspension (lines 66-68, 72-73): with
\* an entry in the cache it returns at once, without one it awaits the fetch.
CallGetGroupAdmins(p, jid) ==
    /\ pc[p] = "idle"
    /\ LET l == [NoLoc EXCEPT !.cmd = "getGroupAdmins", !.ctx = "caller", !.jid = jid]
       IN  IF groupMetadataCache[jid].present
             THEN Continue(p, [pc |-> "done",
                               loc |-> [Step(l, "rosterFromCache") EXCEPT
                                          !.result = groupMetadataCache[jid]]])
             ELSE Continue(p, [pc |-> "gaFetch", loc |-> Step(l, "absent")])
    /\ UNCHANGED <<now, ticks, hasGeminiKey, rateLimits, groupMetadataCache, timers,
                   groupState, files, windows>>

\* getGroupAdmins from sock.groupMetadata's result on (lines 68-73): the
\* roster is stored, its eviction is scheduled, and the stored roster is read.
GroupAdminsFetched(p, ok) ==
    /\ pc[p] = "gaFetch"
    /\ LET l    == Step(loc[p], "rosterFetch")
           meta == [present |-> TRUE, participants |-> groupState[l.jid], fetchedAt |-> now]
       IN  IF ~ok
             THEN /\ Continue(p, Raise(l, RosterError))
                  /\ UNCHANGED <<groupMetadataCache, timers>>
             ELSE /\ groupMetadataCache' = [groupMetadataCache EXCEPT ![l.jid] = meta]
                  /\ timers' = Append(timers, [jid |-> l.jid, due |-> now + CacheTtlMs,
                                               setAt |-> now])
                  /\ Continue(p, [pc |-> "done", loc |-> [l EXCEPT !.result = meta]])
    /\ UNCHANGED <<now, ticks, hasGeminiKey, rateLimits, groupState, files, windows>>

\* isUserAdmin(jid, userJid) on the roster getGroupAdmins returned (line 78)
isUserAdmin(roster, userJid) == userJid \in AdminIds(roster.participants)

\* isBotAdmin (lines 83-86) on the roster it read, for sock.user.id = userId:
\* the id up to its first ":" with "@s.whatsapp.net" appended.
BotJidChars(userId) ==
    LET t    == Chars(userId)
        cuts == {i \in DOMAIN t : t[i] = ":"}
        base == IF cuts = {} THEN t
                ELSE SubSeq(t, 1, (CHOOSE i \in cuts : \A j \in cuts : i <= j) - 1)
    IN  base \o <<"@", "s", ".", "w", "h", "a", "t", "s", "a", "p", "p", ".", "n", "e", "t">>

isBotAdmin(roster, userId) ==
    \E x \in roster.participants : Chars(x.id) = BotJidChars(userId) /\ x.admin

\* isBotAdmin(jid) up to its first suspension (line 82): the cached roster,
\* or else the fetch.
CallIsBotAdmin(p, jid) ==
    /\ pc[p] = "idle"
    /\ LET l == [NoLoc EXCEPT !.cmd = "isBotAdmin", !.ctx = "caller", !.jid = jid]
       IN  IF groupMetadataCache[jid].present
             THEN Continue(p, [pc |-> "done",
                               loc |-> [Step(l, "rosterFromCache") EXCEPT
                                          !.result = groupMetadataCache[jid]]])
             ELSE Continue(p, [pc |-> "botFetch", loc |-> Step(l, "absent")])
    /\ UNCHANGED <<now, ticks, hasGeminiKey, rateLimits, groupMetadataCache, timers,
                   groupState, files, windows>>

\* isBotAdmin from sock.groupMetadata's result on: nothing is stored.
BotAdminFetched(p, ok) ==
    /\ pc[p] = "botFetch"
    /\ LET l    == Step(loc[p], "rosterFetch")
           meta == [present |-> TRUE, participants |-> groupState[l.jid], fetchedAt |-> now]
       IN  IF ~ok THEN Continue(p, Raise(l, RosterError))
           ELSE Continue(p, [pc |-> "done", loc |-> [l EXCEPT !.result = meta]])
    /\ UNCHANGED <<now, ticks, hasGeminiKey, rateLimits, groupMetadataCache, timers,
                   groupState, files, windows>>

\* The callback of setTimeout(() => groupMetadataCache.delete(jid), 5 * 60 *
\* 1000) (line 70).  All timers have the same delay, so they run in the order
\* they were set.
EvictionTimer ==
    /\ timers # <<>>
    /\ Head(timers).due <= now
    /\ groupMetadataCache' = [groupMetadataCache EXCEPT ![Head(timers).jid] = NoRoster]
    /\ timers' = Tail(timers)
    /\ fin' = NoFin
    /\ UNCHANGED <<now, ticks, hasGeminiKey, rateLimits, groupState, files, pc, ev, loc,
                   out, windows>>

\* ---------------------------------------------------------- environment

\* The clock advances by d milliseconds.  setTimeout runs a callback no
\* earlier than its delay, and as late as the event loop gets to it: the
\* clock may pass the time a pending timer is due at.
Tick(d) ==
    /\ ticks < MaxTicks
    /\ now' = now + d
    /\ ticks' = ticks + 1
    /\ fin' = NoFin
    /\ UNCHANGED <<hasGeminiKey, rateLimits, groupMetadataCache, timers, groupState, files,
                   pc, ev, loc, out, windows>>

\* A participant joins or leaves: the transport's roster of the group changes.
MembershipChange(g, roster) ==
    /\ groupState[g] # roster
    /\ groupState' = [groupState EXCEPT ![g] = roster]
    /\ fin' = NoFin
    /\ UNCHANGED <<now, ticks, hasGeminiKey, rateLimits, groupMetadataCache, timers, files,
                   pc, ev, loc, out, windows>>

\* ------------------------------------------------------ specifications

\* A text message, and a message that carries or quotes attachments.
TextMessage(jid, participant, body) ==
    Message(jid, participant, body, NoExtendedText, NoAttachment, NoAttachment)

\* checkRateLimit(sender) called on its own (it has no await, so it runs from
\* start to end without another step in between).
CallCheckRateLimit(sender) ==
    /\ LET rl == CheckRateLimit(rateLimits, sender, now)
           l  == [NoLoc EXCEPT !.cmd = "checkRateLimit", !.ctx = "caller", !.jid = sender]
       IN  /\ rateLimits' = rl.rateLimits
           /\ windows' = [windows EXCEPT ![sender] = ObserveAttempt(@, now, ~rl.throws)]
           /\ IF rl.throws
                THEN Proceed(1, NoMessage, Raise(Step(l, "rateLimited"), RateLimitMessage), <<>>)
                ELSE Proceed(1, NoMessage, [pc |-> "done", loc |-> Step(l, "rateOk")], <<>>)
    /\ UNCHANGED <<now, ticks, hasGeminiKey, groupMetadataCache, timers, groupState, files>>

\* The rate limiter under the attempts of one sender, at any times.
RateSteps == {1, RATE_LIMIT.windowMs}

InitRate == Init /\ hasGeminiKey

NextRate ==
    \/ CallCheckRateLimit(OtherJid)
    \/ \E d \in RateSteps : Tick(d)

SpecRate == InitRate /\ [][NextRate]_vars

\* The listener on messages of every kind, one invocation at a time.
\* Messages the listener ignores: no command token, or no registered command.
IgnoredEvents ==
    {TextMessage(OtherJid, "", "hello"), TextMessage(OtherJid, "", ""),
     TextMessage(OtherJid, "", "x !menu"), TextMessage(OtherJid, "", "! menu"),
     TextMessage(OtherJid, "", "!foo"), TextMessage(OtherJid, "", "!stickers"),
     [NoMessage EXCEPT !.remoteJid = OtherJid]}

MenuEvents == {TextMessage(OtherJid, "", "  !MENU"), TextMessage(GroupJid, OtherJid, "!ajuda")}

TodosEvents ==
    {TextMessage(GroupJid, OtherJid, "!todos party time"),
     TextMessage(GroupJid, OwnerDeviceJid, "!todos party time"),
     TextMessage(OtherJid, "", "!todos party time")}

TtsEvents ==
    {TextMessage(OtherJid, "", "!tts en hello world"), TextMessage(OtherJid, "", "!tts")}

SmallBytes == 1000

\* Commands on media: a sticker from an image sent with the command as its
\* caption, from a quoted video, from an image over the download limit and
\* with no media; OCR of an image and of a video; a translation of a quoted
\* image.
MediaCommandEvents ==
    {Message(OtherJid, "", "", NoExtendedText, Attachment("!Fig", SmallBytes), NoAttachment),
     Message(OtherJid, "", "", ExtendedText("!gifsticker",
               Quoted(NoAttachment, Attachment("", SmallBytes))), NoAttachment, NoAttachment),
     Message(OtherJid, "", "", NoExtendedText, Attachment("!sticker", MaxMediaBytes + 1),
             NoAttachment),
     TextMessage(OtherJid, "", "!sticker"),
     Message(OtherJid, "", "", NoExtendedText, Attachment("!ocr", SmallBytes), NoAttachment),
     Message(OtherJid, "", "", NoExtendedText, NoAttachment, Attachment("!ocr", SmallBytes)),
     Message(OtherJid, "", "", ExtendedText("!imgtr EN",
               Quoted(Attachment("", SmallBytes), NoAttachment)), NoAttachment, NoAttachment)}

RouterEvents == IgnoredEvents \cup MenuEvents \cup TodosEvents \cup TtsEvents \cup MediaCommandEvents

\* The lengths an encoder's output may have: at the limit and over it.
EncodedSizes == {MaxStickerBytes, MaxStickerBytes + 1}

\* The texts Gemini may answer with.
GeminiTexts == {<<>>, <<"texto">>}

\* The steps of the sticker pipeline after the handler's start.
StickerSteps(p) ==
    \/ \E ok \in BOOLEAN : Download(p, ok)
    \/ \E ok \in BOOLEAN, bytes \in EncodedSizes : Sharp(p, ok, bytes)
    \/ \E ok \in BOOLEAN, left \in BOOLEAN : VideoWrite(p, ok, left)
    \/ \E ok \in BOOLEAN, left \in BOOLEAN, bytes \in EncodedSizes : VideoEncode(p, ok, left, bytes)
    \/ \E ok \in BOOLEAN : VideoRead(p, ok)
    \/ VideoUnlinkIn(p)
    \/ VideoUnlinkOut(p)
    \/ \E ok \in BOOLEAN : Send(p, ok)

\* The steps every handler invocation may take after the rate check.
HandlerSteps(p) ==
    \/ HandleMenu(p)
    \/ HandleSticker(p)
    \/ HandleOCR(p)
    \/ HandleImageTranslate(p)
    \/ HandleTodos(p)
    \/ HandleTTS(p)
    \/ StickerSteps(p)
    \/ \E ok \in BOOLEAN, text \in GeminiTexts : Gemini(p, ok, text)
    \/ \E ok \in BOOLEAN : FetchRoster(p, ok)

\* The program: the listener on the messages the transport delivers.  No
\* code of the repository calls getGroupAdmins; a lookup made beside the
\* listener is what puts a roster into the cache.
Next ==
    \/ \E msg \in RouterEvents : Upsert(1, msg)
    \/ HandlerSteps(1)
    \/ CallGetGroupAdmins(1, GroupJid)
    \/ \E ok \in BOOLEAN : GroupAdminsFetched(1, ok)

Spec == Init /\ [][Next]_vars

\* Every handler, one message for each path through a handler, one
\* invocation at a time: a handler reads nothing another invocation writes
\* but the roster cache, which only getGroupAdmins fills.
HandlerEvents ==
    MediaCommandEvents
      \cup {TextMessage(OtherJid, "", "  !MENU"),
            TextMessage(GroupJid, OtherJid, "!todos party time"),
            TextMessage(OtherJid, "", "!todos party time"),
            TextMessage(OtherJid, "", "!tts en hello world")}

NextHandlers ==
    \/ \E msg \in HandlerEvents : Upsert(1, msg)
    \/ HandlerSteps(1)
    \/ CallGetGroupAdmins(1, GroupJid)
    \/ \E ok \in BOOLEAN : GroupAdminsFetched(1, ok)

SpecHandlers == Init /\ [][NextHandlers]_vars

\* Messages without a command among commands, in concurrent invocations of
\* the listener, with a roster lookup filling the cache beside them.
IgnoreEvents == IgnoredEvents \cup {TextMessage(OtherJid, "", "!menu")}

NextIgnore ==
    \/ \E p \in Procs, msg \in IgnoreEvents : Upsert(p, msg)
    \/ \E p \in Procs : HandleMenu(p)
    \/ \E p \in Procs, ok \in BOOLEAN : Send(p, ok)
    \/ \E p \in Procs : CallGetGroupAdmins(p, GroupJid)
    \/ \E p \in Procs, ok \in BOOLEAN : GroupAdminsFetched(p, ok)

SpecIgnore == InitRate /\ [][NextIgnore]_vars

\* The sticker command on every combination of a direct image, a direct
\* video, a quoted message and the image and the video of the quoted message.
Attachments(caption) == {NoAttachment, Attachment(caption, SmallBytes)}

QuotedMessages ==
    {NoQuoted} \cup {Quoted(i, v) : i \in Attachments(""), v \in Attachments("")}

MediaEvents ==
    {Message(OtherJid, "", "!sticker", ExtendedText("", q), i, v) :
        q \in QuotedMessages, i \in Attachments(""), v \in Attachments("")}

NextMedia ==
    \/ \E msg \in MediaEvents : Upsert(1, msg)
    \/ HandleSticker(1)
    \/ StickerSteps(1)

SpecMedia == InitRate /\ [][NextMedia]_vars

\* The video transcoder in concurrent invocations.
NextVideo ==
    \/ \E p \in Procs : CallVideoToStickerWebp(p)
    \/ \E p \in Procs, ok \in BOOLEAN, left \in BOOLEAN : VideoWrite(p, ok, left)
    \/ \E p \in Procs, ok \in BOOLEAN, left \in BOOLEAN, bytes \in EncodedSizes :
          VideoEncode(p, ok, left, bytes)
    \/ \E p \in Procs, ok \in BOOLEAN : VideoRead(p, ok)
    \/ \E p \in Procs : VideoUnlinkIn(p)
    \/ \E p \in Procs : VideoUnlinkOut(p)

SpecVideo == InitRate /\ [][NextVideo]_vars

\* The group directory under concurrent lookups, eviction timers, the clock
\* and membership changes.
DirectorySteps == {1, CacheTtlMs}

NextDirectory ==
    \/ \E p \in Procs : CallGetGroupAdmins(p, GroupJid)
    \/ \E p \in Procs, ok \in BOOLEAN : GroupAdminsFetched(p, ok)
    \/ \E p \in Procs : CallIsBotAdmin(p, GroupJid)
    \/ \E p \in Procs, ok \in BOOLEAN : BotAdminFetched(p, ok)
    \/ EvictionTimer
    \/ \E d \in DirectorySteps : Tick(d)
    \/ \E roster \in Rosters : MembershipChange(GroupJid, roster)

SpecDirectory == InitRate /\ [][NextDirectory]_vars

\* The media commands on attachments at the download limit and one byte over
\* it, direct and quoted, one invocation at a time.
LimitSizes == {MaxMediaBytes, MaxMediaBytes + 1}

LimitEvents ==
    {Message(OtherJid, "", "", NoExtendedText, Attachment(c, b), NoAttachment) :
        c \in {"!sticker", "!ocr", "!imgtr EN"}, b \in LimitSizes}
      \cup {Message(OtherJid, "", "", ExtendedText("!gifsticker",
                      Quoted(NoAttachment, Attachment("", b))), NoAttachment, NoAttachment) :
              b \in LimitSizes}

NextLimit ==
    \/ \E msg \in LimitEvents : Upsert(1, msg)
    \/ HandleSticker(1)
    \/ HandleOCR(1)
    \/ HandleImageTranslate(1)
    \/ StickerSteps(1)
    \/ \E ok \in BOOLEAN, text \in GeminiTexts : Gemini(1, ok, text)

SpecLimit == Init /\ [][NextLimit]_vars

\* The rate limiter under the calls of two senders in any order, while the
\* clock advances.  checkRateLimit has no await: the calls of concurrent
\* listener invocations run one after the other, in any order.
NextWindows ==
    \/ \E sender \in {OtherJid, OwnerJid} : CallCheckRateLimit(sender)
    \/ \E d \in RateSteps : Tick(d)

SpecWindows == InitRate /\ [][NextWindows]_vars

\* The listener on text messages whose leading token is a command name or an
\* alias in some letter case, or is no registered command, one at a time.
RegisteredTokenTexts ==
    {"  !MENU", "!Help", "!ajuda", "!sticker", "!Fig", "!S", "!GifSticker", "!OCR", "!Imgtr",
     "!TODOS", "!Tts", "!s!menu"}

UnregisteredTokenTexts == {"!foo", "!stickers", "!menus"}

DispatchEvents ==
    {TextMessage(OtherJid, "", t) : t \in RegisteredTokenTexts \cup UnregisteredTokenTexts}

NextDispatch ==
    \/ \E msg \in DispatchEvents : Upsert(1, msg)
    \/ HandleMenu(1)
    \/ HandleSticker(1)
    \/ HandleOCR(1)
    \/ HandleImageTranslate(1)
    \/ HandleTodos(1)
    \/ HandleTTS(1)
    \/ \E ok \in BOOLEAN : Send(1, ok)

SpecDispatch == Init /\ [][NextDispatch]_vars

\* !todos broadcasts in a group (the listener, in slot 1), next to
\* getGroupAdmins lookups that fill the roster cache (slot 2), the eviction
\* timers and membership changes.
BroadcastEvents ==
    {TextMessage(GroupJid, OtherJid, "!todos party time")}

NextBroadcast ==
    \/ CallGetGroupAdmins(2, GroupJid)
    \/ \E ok \in BOOLEAN : GroupAdminsFetched(2, ok)
    \/ \E msg \in BroadcastEvents : Upsert(1, msg)
    \/ HandleTodos(1)
    \/ \E ok \in BOOLEAN : FetchRoster(1, ok)
    \/ \E ok \in BOOLEAN : Send(1, ok)
    \/ EvictionTimer
    \/ Tick(CacheTtlMs)
    \/ \E roster \in Rosters : MembershipChange(GroupJid, roster)

SpecBroadcast == InitRate /\ [][NextBroadcast]_vars

\* ------------------------------------------------------------- claims

\* The invocations a state shows: the ones in flight and the one that ended
\* in the last step.
Invocations ==
    {[ev |-> ev[p], loc |-> loc[p], out |-> out[p]] : p \in Procs}
      \cup {[ev |-> fin.ev, loc |-> fin.loc, out |-> fin.out]}

\* The calls made beside the listener.
DirectCalls == {"getGroupAdmins", "isBotAdmin", "checkRateLimit", "videoToStickerWebp"}

WasDelivered(m) == m.delivered

\* The sendMessage calls the transport delivered.
Delivered(sent) == SelectSeq(sent, WasDelivered)

Did(l, s) == s \in Range(l.steps)

\* C1: for every sender, at most 5 attempts pass checkRateLimit within the
\* 60 seconds that follow the start of the sender's window (the first-ever
\* attempt, or the first attempt after the previous window expired); a 6th
\* attempt inside those 60 seconds is rejected.
C1_AtMostMaxPerWindow ==
    \A s \in Jids : windows[s].open => windows[s].passed <= RATE_LIMIT.max

\* C2: a !todos sent in a group by a sender whose normalized id differs from
\* the normalized owner id never results in a broadcast: no message that
\* mentions the group's participants is sent.
C2_NonOwnerNeverBroadcasts ==
    \A v \in Invocations :
        (v.ev.hasMessage /\ IsGroupJid(v.ev.remoteJid) /\ ~IsOwner(SenderOf(v.ev)))
          => \A i \in DOMAIN v.out :
                v.out[i].payload.type # "broadcast" /\ v.out[i].payload.mentions = {}

\* C3: when the router dispatches !tts within the rate limit, the body
\* "!tts en hello world" produces an audio reply synthesised from "hello
\* world" in "en", the body "!tts" produces the usage text and no audio, and
\* the handler receives the raw text of the message as its text argument.
C3_TtsRepliesFromText ==
    (fin.how = "done" /\ fin.loc.cmd = "handleTTS" /\ Did(fin.loc, "invoke"))
      => /\ TtsTexto(fin.ev) = [type |-> "string", text |-> TextoOf(fin.ev)]
         /\ TextoOf(fin.ev) = "!tts en hello world"
              => \E i \in DOMAIN fin.out :
                    fin.out[i].payload =
                      AudioPayload(<<"h", "e", "l", "l", "o", " ", "w", "o", "r", "l", "d">>,
                                   <<"e", "n">>)
         /\ TextoOf(fin.ev) = "!tts"
              => /\ fin.out[1].payload = TextPayload(TtsUsageText)
                 /\ \A i \in DOMAIN fin.out : fin.out[i].payload.type # "audio"

\* C4: a roster obtained from the transport at time T is never returned by
\* getGroupAdmins, nor read from the cache by isBotAdmin, at a time later
\* than T + 5 minutes, under any interleaving of lookups and eviction timers;
\* a call that finds no cache entry performs a fresh fetch.
C4_RosterNeverServedStale ==
    (fin.how = "done" /\ fin.loc.cmd \in {"getGroupAdmins", "isBotAdmin"})
      => /\ Did(fin.loc, "rosterFromCache")
              => now <= fin.loc.result.fetchedAt + 5 * 60 * 1000
         /\ Did(fin.loc, "absent") => Did(fin.loc, "rosterFetch")

\* Whether a text begins, after optional whitespace, with a "!" and a word
\* character.
BeginsWithCommandToken(t) ==
    \E k \in 0 .. Len(t) :
        /\ \A i \in 1 .. k : IsSpace(t[i])
        /\ k + 2 <= Len(t)
        /\ t[k + 1] = "!"
        /\ IsWordChar(t[k + 2])

\* C5: an inbound event whose body text does not begin (after optional
\* whitespace) with a !word token sends no message and leaves the rate-limit
\* map and the roster cache (and the timers and the files) unchanged, each
\* time it is processed and in whatever state.
C5_NoTokenNoEffect ==
    [][(fin'.how # "none" /\ fin'.loc.cmd \notin DirectCalls
          /\ ~BeginsWithCommandToken(Chars(TextoOf(fin'.ev))))
         => /\ fin'.how = "done"
            /\ fin'.out = <<>>
            /\ UNCHANGED <<rateLimits, groupMetadataCache, timers, files>>]_vars

\* An event without a token has been processed while the sender's window and
\* the roster cache were filled and another invocation was in flight.
C5_Witness ==
    /\ fin.how = "done"
    /\ fin.ev.conversation = "x !menu"
    /\ fin.out = <<>>
    /\ rateLimits[OtherJid].count = 2
    /\ groupMetadataCache[GroupJid].present
    /\ \E p \in Procs : pc[p] = "send"

\* C6: no sticker payload larger than 1 MiB (1048576 bytes) is ever passed
\* to the transport; on the image path and on the video path, an encoded
\* artifact over 1 MiB makes the transcoder fail and the sticker handler send
\* an error text instead of a sticker.
C6_NoOversizedSticker ==
    /\ \A v \in Invocations :
          /\ v.loc.payload.type = "sticker" => v.loc.payload.bytes <= 1048576
          /\ \A i \in DOMAIN v.out :
                v.out[i].payload.type = "sticker" => v.out[i].payload.bytes <= 1048576
    /\ (fin.how # "none" /\ fin.loc.webp > 1048576)
          => /\ Did(fin.loc, "transcodeFailed")
             /\ \A i \in DOMAIN fin.out : fin.out[i].payload.type # "sticker"
             /\ fin.out # <<>>
             /\ fin.out[1].payload.type = "text"
             /\ TextStartsWithFailure(fin.out[1].payload.text)

\* A video was encoded to more than 1 MiB and the error text was delivered.
C6_Witness ==
    /\ fin.how = "done"
    /\ fin.loc.media.kind = "video"
    /\ fin.loc.webp = 1048577
    /\ Len(fin.out) = 1
    /\ fin.out[1].delivered
    /\ fin.out[1].payload = TextPayload(StickerErrorText(VideoStickerFailed(VideoStickerTooLarge)))

\* C7: for every event that resolves to a registered command, no exception
\* escapes the event listener: whichever step raises, the error is caught
\* and event processing completes normally.
C7_NoExceptionEscapes == fin.how # "escaped"

\* C8: every invocation of a command handler results in exactly one message
\* delivered to the originating chat, on every path; never zero and never
\* two.
C8_ExactlyOneDelivered ==
    (fin.how # "none" /\ Did(fin.loc, "invoke"))
      => /\ Len(Delivered(fin.out)) = 1
         /\ \A i \in DOMAIN fin.out : fin.out[i].jid = fin.ev.remoteJid

\* The temporary files the invocations in flight hold.
HeldPaths ==
    UNION {{loc[p].inPath, loc[p].outPath} :
             p \in {q \in Procs : pc[q] \in {"vWrite", "vEncode", "vRead", "vUnlinkIn",
                                             "vUnlinkOut"}}}

FirstPresentAttachment(msg) ==
    LET q == msg.extendedTextMessage.quotedMessage
    IN  IF msg.imageMessage.present THEN [found |-> TRUE, kind |-> "image", origin |-> "direct"]
        ELSE IF msg.videoMessage.present THEN [found |-> TRUE, kind |-> "video", origin |-> "direct"]
        ELSE IF q.present /\ q.imageMessage.present
          THEN [found |-> TRUE, kind |-> "image", origin |-> "quoted"]
        ELSE IF q.present /\ q.videoMessage.present
          THEN [found |-> TRUE, kind |-> "video", origin |-> "quoted"]
        ELSE [found |-> FALSE, kind |-> "none", origin |-> "direct"]

\* C10: for every combination of a direct image, a direct video, a quoted
\* image and a quoted video, getMediaBuffer returns the first present
\* attachment in the order direct image, direct video, quoted image, quoted
\* video, with its kind, and the empty result exactly when none is present.
C10_FirstPresentAttachment ==
    \A v \in Invocations :
        (v.loc.cmd = "handleSticker" /\ Did(v.loc, "invoke"))
          => LET want == FirstPresentAttachment(v.ev)
             IN  /\ v.loc.media.found = want.found
                 /\ want.found => /\ v.loc.media.kind = want.kind
                                  /\ v.loc.media.origin = want.origin

\* The attachment of a message that getMediaBuffer downloads.
DecodedBytes(msg) == SelectMedia(msg).bytes

\* The download itself failed: the catch of the listener follows it at once.
DownloadFailed(l) ==
    \E i \in DOMAIN l.steps :
        l.steps[i] = "download" /\ i < Len(l.steps) /\ l.steps[i + 1] = "routerCatch"

\* C11: for every media command (sticker, gifsticker, ocr, imgtr), a decoded
\* attachment larger than 10 MiB (10485760 bytes) makes the extraction fail
\* with the media-too-large error, neither a transcoder nor the AI
\* collaborator is invoked, and every message sent is an error text; an
\* attachment of at most 10 MiB is never rejected for its size.
C11_MediaCeiling ==
    \A v \in Invocations :
        Did(v.loc, "download")
          => /\ Did(v.loc, "mediaTooLarge") => DecodedBytes(v.ev) > 10485760
             /\ (DecodedBytes(v.ev) > 10485760 /\ ~DownloadFailed(v.loc))
                  => Did(v.loc, "mediaTooLarge")
             /\ DecodedBytes(v.ev) > 10485760
                  => /\ ~Did(v.loc, "transcode")
                     /\ ~Did(v.loc, "gemini")
                     /\ \A i \in DOMAIN v.out :
                           /\ v.out[i].payload.type = "text"
                           /\ TextStartsWithFailure(v.out[i].payload.text)
                     /\ (v.out # <<>> /\ ~DownloadFailed(v.loc))
                           => v.out[1].payload.text = RouterErrorText(MediaTooLargeMessage)

\* An OCR command on an image of 10 MiB and one byte has ended with the
\* error text delivered.
C11_Witness ==
    /\ fin.how = "done"
    /\ fin.loc.cmd = "handleOCR"
    /\ DecodedBytes(fin.ev) = 10485761
    /\ Did(fin.loc, "mediaTooLarge")
    /\ Len(fin.out) = 1
    /\ fin.out[1].delivered

\* A translation of an image of exactly 10 MiB went on to the AI collaborator.
C11_WitnessAtLimit ==
    /\ fin.how = "done"
    /\ fin.loc.cmd = "handleImageTranslate"
    /\ DecodedBytes(fin.ev) = 10485760
    /\ Did(fin.loc, "gemini")

\* checkRateLimit has rejected a call in this step.
RejectedNow == fin'.how = "done" /\ Did(fin'.loc, "rateLimited")

\* C12: in every reachable state, under any order of the calls of concurrent
\* events, each sender's count is between 0 and 5; a checkRateLimit call
\* that is rejected leaves the sender's count and resetTime as they were.
C12_CountInRangeRejectKeeps ==
    /\ [](\A s \in Jids : rateLimits[s].count \in 0 .. 5)
    /\ [][RejectedNow => rateLimits' = rateLimits]_vars

\* A sender at the limit has just been rejected, in a window that was opened
\* by a reset, while the other sender has a window of its own.
C12_Witness ==
    /\ fin.how = "done"
    /\ Did(fin.loc, "rateLimited")
    /\ rateLimits[fin.loc.jid].count = 5
    /\ rateLimits[fin.loc.jid].resetTime > RATE_LIMIT.windowMs
    /\ \E s \in Jids : s # fin.loc.jid /\ rateLimits[s].count \in 1 .. 4

\* What an invocation does inside a handler or for one.
HandlerWork ==
    {"invoke", "download", "mediaTooLarge", "transcode", "transcodeFailed", "transcodeEnded",
     "gemini", "rosterFetch", "rosterFromCache", "figurinhaCatch", "synthesised"}

\* C13: for every resolved command event the rate-limit check comes before
\* the handler; if the check fails the handler is never invoked (no media
\* download, transcoding, collaborator call or roster fetch) and exactly one
\* text reply, carrying the limiter's error text, is sent to the originating
\* chat.
C13_RejectedNeverHandled ==
    \A v \in Invocations :
        /\ Did(v.loc, "invoke") => v.loc.steps[1] = "rateOk"
        /\ Did(v.loc, "rateLimited")
             => /\ v.loc.steps[1] = "rateLimited"
                /\ Range(v.loc.steps) \cap HandlerWork = {}
                /\ v.loc.payload =
                     TextPayload(<<FailureMarker, " Erro: ">> \o RateLimitMessage)
                /\ Len(v.out) <= 1
                /\ \A i \in DOMAIN v.out :
                      /\ v.out[i].payload = v.loc.payload
                      /\ v.out[i].jid = v.ev.remoteJid
                /\ Did(v.loc, "returned") => Len(v.out) = 1 /\ v.out[1].delivered

\* A !todos in a group was rejected by the rate limiter and the limiter's
\* text was delivered to the group.
C13_Witness ==
    /\ fin.how = "done"
    /\ Did(fin.loc, "rateLimited")
    /\ IsGroupJid(fin.ev.remoteJid)
    /\ TextoOf(fin.ev) = "!todos party time"
    /\ Len(fin.out) = 1
    /\ fin.out[1].delivered
    /\ fin.out[1].jid = GroupJid

\* The leading !word token of a text, in lower case: the word characters
\* that follow the "!" after optional whitespace, up to the first character
\* that is none (the empty sequence when the text has no such token).
LeadingToken(t) ==
    LET starts == {k \in 0 .. Len(t) :
                      /\ \A i \in 1 .. k : IsSpace(t[i])
                      /\ k + 2 <= Len(t)
                      /\ t[k + 1] = "!"
                      /\ IsWordChar(t[k + 2])}
    IN  IF starts = {} THEN <<>>
        ELSE LET k == CHOOSE x \in starts : TRUE
                 e == CHOOSE x \in (k + 2) .. Len(t) :
                        /\ \A i \in (k + 2) .. x : IsWordChar(t[i])
                        /\ x = Len(t) \/ ~IsWordChar(t[x + 1])
             IN  [i \in 1 .. (e - k - 1) |-> ToLowerChar(t[k + 1 + i])]

\* The handler registered for a token: by the names and the aliases of the
\* command table.
RegisteredHandler(token) ==
    CASE token \in {Chars("menu"), Chars("help"), Chars("ajuda")} -> "handleMenu"
      [] token \in {Chars("sticker"), Chars("fig"), Chars("s"), Chars("gifsticker")}
           -> "handleSticker"
      [] token = Chars("ocr") -> "handleOCR"
      [] token = Chars("imgtr") -> "handleImageTranslate"
      [] token = Chars("todos") -> "handleTodos"
      [] token = Chars("tts") -> "handleTTS"
      [] OTHER -> "none"

HandlerOfEvent(msg) == RegisteredHandler(LeadingToken(Chars(TextoOf(msg))))

\* C14: an event whose leading !word token, compared without regard to
\* letter case, is neither a registered name nor an alias sends no message,
\* invokes no handler and leaves the sender's rate window unchanged; a token
\* equal to a name or an alias in any letter case dispatches to the handler
\* of that command.
C14_DispatchByNameOrAlias ==
    /\ [](\A v \in Invocations :
            v.ev.hasMessage
              => /\ HandlerOfEvent(v.ev) = "none" => v.loc.steps = <<"ignored">> /\ v.out = <<>>
                 /\ HandlerOfEvent(v.ev) # "none"
                      => /\ ~Did(v.loc, "ignored")
                         /\ Did(v.loc, "rateOk") => v.loc.cmd = HandlerOfEvent(v.ev)
                         /\ Did(v.loc, "invoke") => v.loc.cmd = HandlerOfEvent(v.ev))
    /\ [][(fin'.how # "none" /\ fin'.ev.hasMessage /\ HandlerOfEvent(fin'.ev) = "none")
            => UNCHANGED <<rateLimits, groupMetadataCache, timers, files>>]_vars

\* "!Fig" was dispatched to the sticker handler, which replied.
C14_Witness ==
    /\ fin.how = "done"
    /\ TextoOf(fin.ev) = "!Fig"
    /\ fin.loc.cmd = "handleSticker"
    /\ Did(fin.loc, "invoke")
    /\ rateLimits[OtherJid].count = 3

\* "!stickers" was ignored while the sender's window was in use.
C14_WitnessIgnored ==
    /\ fin.how = "done"
    /\ TextoOf(fin.ev) = "!stickers"
    /\ fin.loc.steps = <<"ignored">>
    /\ rateLimits[OtherJid].count = 3

\* C15: every roster entry written to the cache at time t stays in the cache
\* until exactly t + 5 minutes and is removed then, neither earlier nor
\* later, under any interleaving of concurrent getGroupAdmins calls and of
\* eviction timers; nothing but the entry's own timer removes it.
C15_OwnTimerRemoves ==
    [][\A g \in Groups :
          (groupMetadataCache[g].present /\ groupMetadataCache'[g] # groupMetadataCache[g])
            => /\ ~groupMetadataCache'[g].present
               /\ timers # <<>>
               /\ timers' = Tail(timers)
               /\ Head(timers).jid = g
               /\ Head(timers).setAt = groupMetadataCache[g].fetchedAt
               /\ now = groupMetadataCache[g].fetchedAt + 5 * 60 * 1000]_vars

\* C16: in both shared maps there is no suspension point between reading an
\* entry and writing it: no update of a rate window is lost, and no two
\* handlers both observe the same group as absent and both write its roster.
\* A handler writes a roster only after it observed the group as absent, so
\* a roster stored over an entry that is present is the second such write.
C16_RosterWrittenOnlyWhenAbsent ==
    [][\A p \in Procs :
          (pc[p] = "gaFetch" /\ pc'[p] = "idle" /\ fin'.how = "done"
             /\ Did(loc[p], "absent"))
            => ~groupMetadataCache[loc[p].jid].present]_vars

\* C17: every error raised inside a handler or its collaborators propagates
\* to the router's try/catch and is recovered only there: no handler and no
\* helper catches an error and sends the user-facing error reply itself.
C17_OnlyRouterRecovers ==
    \A v \in Invocations :
        /\ ~Did(v.loc, "figurinhaCatch")
        /\ ~Did(v.loc, "ttsCatch")

\* message contains part as a contiguous run
Contains(message, part) ==
    \E i \in 1 .. (Len(message) - Len(part) + 1) :
        SubSeq(message, i, i + Len(part) - 1) = part

\* The error a failed transcoder call surfaced to its caller: the one
\* enviarFigurinha's catch received, or the one a direct call threw.
Surfaced(l) == Did(l, "transcodeFailed") /\ (Did(l, "figurinhaCatch") \/ Did(l, "threw"))

\* C18: for both transcoder entry points every failure (bad input, encoder
\* error, output above 1 MiB) is surfaced as one transcode-failure error
\* whose message contains the message of the underlying cause, and no
\* sticker is sent when the transcoder fails.
C18_FailureCarriesCause ==
    \A v \in Invocations :
        /\ Did(v.loc, "transcodeFailed")
             => \A i \in DOMAIN v.out : v.out[i].payload.type # "sticker"
        /\ Surfaced(v.loc)
             => /\ v.loc.cause # <<>>
                /\ Contains(v.loc.err, v.loc.cause)

\* C19: every !todos broadcast mentions exactly the participants the
\* transport reports for the group at the time of the broadcast, in any
\* state of the roster cache and after any sequence of earlier lookups and
\* membership changes.  The broadcast is made by the step that builds its
\* payload and calls sock.sendMessage.
C19_BroadcastMentionsCurrentRoster ==
    [][\A p \in Procs :
          (pc[p] # "send" /\ pc'[p] = "send" /\ loc'[p].payload.type = "broadcast")
            => loc'[p].payload.mentions = ParticipantIds(groupState[loc'[p].jid])]_vars

\* What another sender's window may hold while a sender's window is looked at
OtherWindows ==
    {NoRateEntry,
     [present |-> TRUE, count |-> RATE_LIMIT.max, resetTime |-> now + RATE_LIMIT.windowMs]}

\* C20: rate windows are isolated per sender: a checkRateLimit call for a
\* sender changes no other sender's count or windowResetAt, and whether a
\* sender's next command is accepted is the same whatever the other senders
\* have sent.
C20_WindowsIsolated ==
    /\ [](\A b \in {OtherJid, OwnerJid} : \A w \in OtherWindows :
             LET others == [s \in Jids |-> IF s = b THEN rateLimits[b] ELSE w]
                 mine   == CheckRateLimit(rateLimits, b, now)
                 alone  == CheckRateLimit(others, b, now)
             IN  /\ mine.throws = alone.throws
                 /\ mine.rateLimits[b] = alone.rateLimits[b])
    /\ [][(fin'.how = "done" /\ fin'.loc.cmd = "checkRateLimit")
            => \A s \in Jids \ {fin'.loc.jid} : rateLimits'[s] = rateLimits[s]]_vars

\* a sender is turned away while another sender, with commands left in its
\* own window, would be accepted
C20_Witness ==
    /\ fin.how = "done"
    /\ fin.loc.cmd = "checkRateLimit"
    /\ Did(fin.loc, "rateLimited")
    /\ \E b \in Jids \ {fin.loc.jid} :
          /\ rateLimits[b].present
          /\ rateLimits[b].count \in 1 .. (RATE_LIMIT.max - 1)
          /\ ~CheckRateLimit(rateLimits, b, now).throws

====
